---- MODULE Spec2Model ----
(***************************************************************************)
(* Model of app.py, the stunting prediction application: the WHO           *)
(* height-for-age reference lookup, the z-score, the WHO classification,   *)
(* predict_stunting, and the control flow of main() (model loading, the    *)
(* single-record form and the batch loop).                                 *)
(*                                                                         *)
(* Numbers.  The program computes in IEEE-754 doubles.  The model computes *)
(* in exact rationals <<n, d>> (d > 0, lowest terms), so a value of the    *)
(* model is the real number the double approximates.  The thresholds -3    *)
(* and -2 are exact in both.  The special doubles a division by zero       *)
(* produces (inf, -inf, nan) are the values Inf, NegInf and NaN.           *)
(*                                                                         *)
(* Four specifications share the variables: SpecLookup, SpecClassify and   *)
(* SpecPredict apply one function to inputs drawn at Init; Spec is main(), *)
(* run after run.  Each leaves the other groups of variables idle.         *)
(***************************************************************************)
EXTENDS Integers, Sequences, FiniteSets, TLC

VARIABLES
  age_months, sex, ref,            \* one call of get_height_for_age_reference
  z, who,                          \* one run of the classification branch
  data, out, result, prev,         \* calls of predict_stunting on one record
  cache,                           \* st.cache_resource entry of the loader
  pc,                              \* position of the current run of main()
  loaded,                          \* (model, preprocessor, model_loaded)
  load_status,                     \* how the load of this run ended
  errors,                          \* st.error messages shown in this run
  calls,                           \* predict_stunting calls made in this run
  single,                          \* result shown for the form
  batch_data, i, results,          \* the batch loop
  batch_out                        \* the batch table shown

varsLookup == <<age_months, sex, ref>>
varsClassify == <<z, who>>
varsPredict == <<data, out, result, prev>>
varsMain == <<cache, pc, loaded, load_status, errors, calls, single,
              batch_data, i, results, batch_out>>
vars == <<varsLookup, varsClassify, varsPredict, varsMain>>

(* Python's None, and the value of a variable not yet assigned.            *)
None == [kind |-> "None"]

---------------------------------------------------------------------------
(* Exact rational arithmetic standing for the program's float arithmetic.  *)

Abs(x) == IF x < 0 THEN -x ELSE x

(* The operations are functions, so that their arguments are evaluated     *)
(* once, before the body.                                                  *)
Gcd[a \in Nat, b \in Nat] == IF b = 0 THEN a ELSE Gcd[b, a % b]

(* The rational n/d in lowest terms with a positive denominator.           *)
Rat[n \in Int, d \in Int] ==
  LET g == Gcd[Abs(n), Abs(d)]
      s == IF d < 0 THEN -1 ELSE 1
  IN  <<(s * n) \div g, (s * d) \div g>>

Q == Int \X Int

RAdd[a \in Q, b \in Q] == Rat[a[1] * b[2] + b[1] * a[2], a[2] * b[2]]
RSub[a \in Q, b \in Q] == Rat[a[1] * b[2] - b[1] * a[2], a[2] * b[2]]
RMul[a \in Q, b \in Q] == Rat[a[1] * b[1], a[2] * b[2]]
RDiv[a \in Q, b \in Q] == Rat[a[1] * b[2], a[2] * b[1]]
RLess[a \in Q, b \in Q] == a[1] * b[2] < b[1] * a[2]
RLeq[a \in Q, b \in Q] == a[1] * b[2] <= b[1] * a[2]
RBetween(x, a, b) ==
  (RLeq[a, x] /\ RLeq[x, b]) \/ (RLeq[b, x] /\ RLeq[x, a])

(* A decimal literal with one digit after the point, such as 49.9.         *)
Tenths(n) == Rat[n, 10]

---------------------------------------------------------------------------
(* get_height_for_age_reference                                            *)

(* The references dictionary: age -> (median M, SD M, median F, SD F),     *)
(* each literal written in tenths: 499 is 49.9.                            *)
references ==
  [a \in {0, 3, 6, 9, 12, 18, 24, 36, 48, 60} |->
     CASE a = 0  -> <<499,  19, 491,  19>>
       [] a = 3  -> <<614,  24, 598,  24>>
       [] a = 6  -> <<676,  25, 657,  25>>
       [] a = 9  -> <<723,  27, 704,  27>>
       [] a = 12 -> <<760,  28, 743,  28>>
       [] a = 18 -> <<824,  31, 807,  31>>
       [] a = 24 -> <<878,  34, 864,  34>>
       [] a = 36 -> <<961,  38, 951,  39>>
       [] a = 48 -> <<1029, 42, 1019, 43>>
       [] a = 60 -> <<1091, 45, 1084, 46>>]

(* references.keys(), in insertion order, which is also sorted order.      *)
ages == <<0, 3, 6, 9, 12, 18, 24, 36, 48, 60>>

keys == {0, 3, 6, 9, 12, 18, 24, 36, 48, 60}

(* ages.index(a), 1-based.                                                 *)
index(a) == CHOOSE j \in 1..Len(ages) : ages[j] = a

(* min(references.keys(), key=lambda x: abs(x - age_months)): the first    *)
(* key, in iteration order, of least distance.                             *)
closest_age_of(age) ==
  CHOOSE c \in keys :
    /\ \A k \in keys : Abs(c - age) <= Abs(k - age)
    /\ \A k \in keys : Abs(k - age) = Abs(c - age) => index(c) <= index(k)

(* The distance up to which the neighbour of the closest anchor is used.   *)
InterpolationLimit == 12

(* The columns of a references entry read for a sex: 'M' reads 0 and 1,    *)
(* anything else reads 2 and 3 (1-based here).                             *)
SwappedColumns(s) == IF s = "M" THEN <<3, 4>> ELSE <<1, 2>>

sex_columns(s) == IF s = "M" THEN <<1, 2>> ELSE <<3, 4>>

(* return references[a][..], references[a][..]                             *)
anchor_value(a, s) ==
  [median |-> Tenths(references[a][sex_columns(s)[1]]),
   sd |-> Tenths(references[a][sex_columns(s)[2]])]

(* weight = (age_months - closest_age) / age_diff, age_diff = next - closest *)
UndividedWeight(age, lo, hi) == Rat[age - lo, 1]

weight_of(age, lo, hi) == Rat[age - lo, hi - lo]

(* median = m1 + weight * (m2 - m1); sd = sd1 + weight * (sd2 - sd1)       *)
interpolate(age, lo, hi, s) ==
  LET w == weight_of(age, lo, hi)
      v1 == anchor_value(lo, s)
      v2 == anchor_value(hi, s)
  IN  [median |-> RAdd[v1.median, RMul[w, RSub[v2.median, v1.median]]],
       sd |-> RAdd[v1.sd, RMul[w, RSub[v2.sd, v1.sd]]]]

(* bracket without the "idx > 0" guard: ages[idx - 1] with idx = 0 is      *)
(* ages[-1], the last anchor.                                              *)
UnguardedBracket(age) ==
  LET closest == closest_age_of(age)
      idx == index(closest)
  IN  IF closest # age /\ Abs(closest - age) <= InterpolationLimit
      THEN IF closest < age /\ idx < Len(ages)
           THEN [lo |-> closest, hi |-> ages[idx + 1]]
           ELSE IF closest > age
                THEN [lo |-> ages[IF idx > 1 THEN idx - 1 ELSE Len(ages)],
                      hi |-> closest]
                ELSE None
      ELSE None

(* The pair (closest_age, next_age) as it stands at the interpolation, or  *)
(* None when the function returns a single anchor's values.                *)
bracket(age) ==
  LET closest == closest_age_of(age)
      idx == index(closest)
  IN  IF closest # age /\ Abs(closest - age) <= InterpolationLimit
      THEN IF closest < age /\ idx < Len(ages)
           THEN [lo |-> closest, hi |-> ages[idx + 1]]
           ELSE IF closest > age /\ idx > 1
                THEN [lo |-> ages[idx - 1], hi |-> closest]
                ELSE None
      ELSE None

get_height_for_age_reference(age, s) ==
  LET b == bracket(age)
  IN  IF b # None
      THEN interpolate(age, b.lo, b.hi, s)
      ELSE anchor_value(closest_age_of(age), s)

---------------------------------------------------------------------------
(* Specification of the reference lookup as a pure function: the inputs    *)
(* are drawn at Init and the action applies the function.                  *)

BelowRange == 15
AboveRange == 15
Ages == (0 - BelowRange)..(60 + AboveRange)
Sexes == {"M", "F"}

(* The value of each group of variables in a specification that does not  *)
(* use it.                                                                 *)
IdleLookup == age_months = 0 /\ sex = "M" /\ ref = None
IdleClassify == z = <<0, 1>> /\ who = None
IdlePredict == data = None /\ out = None /\ result = None /\ prev = None
IdleMain ==
  /\ cache = None /\ pc = "start" /\ loaded = None /\ load_status = "pending"
  /\ errors = {} /\ calls = 0 /\ single = None
  /\ batch_data = <<>> /\ i = 0 /\ results = <<>> /\ batch_out = None

InitLookup ==
  /\ age_months \in Ages
  /\ sex \in Sexes
  /\ ref = None
  /\ IdleClassify
  /\ IdlePredict
  /\ IdleMain

Lookup ==
  /\ ref = None
  /\ ref' = get_height_for_age_reference(age_months, sex)
  /\ UNCHANGED <<age_months, sex, varsClassify, varsPredict, varsMain>>

NextLookup == Lookup

SpecLookup == InitLookup /\ [][NextLookup]_vars

(* The table entry for an anchor and a sex, read off the table directly.   *)
Literal(a, s) ==
  IF s = "M"
  THEN [median |-> Tenths(references[a][1]), sd |-> Tenths(references[a][2])]
  ELSE [median |-> Tenths(references[a][3]), sd |-> Tenths(references[a][4])]

(* C4: at every anchor age, for either sex, the lookup returns exactly the *)
(* table's (median, SD) entry for that age and sex.                        *)
C4_AnchorExact ==
  (ref # None /\ age_months \in keys) => ref = Literal(age_months, sex)

C4_Witness == ref # None /\ age_months = 24 /\ sex = "F"

(* The adjacent anchors around an age strictly inside the table.           *)
LowAnchor(age) == CHOOSE a \in keys : a < age /\ \A k \in keys : k < age => k <= a
HighAnchor(age) == CHOOSE a \in keys : a > age /\ \A k \in keys : k > age => a <= k

(* C5: at every integer age in 0..60 that is not an anchor, the lookup     *)
(* interpolates between the adjacent anchors lowAge < age < highAge with   *)
(* weight (age - lowAge)/(highAge - lowAge) in [0,1]; the median lies      *)
(* between the two anchors' medians and the SD between their SDs.          *)
C5_Interpolates ==
  (ref # None /\ age_months \in (0..60) \ keys) =>
    LET lo == LowAnchor(age_months)
        hi == HighAnchor(age_months)
        w == Rat[age_months - lo, hi - lo]
        vlo == Literal(lo, sex)
        vhi == Literal(hi, sex)
    IN  /\ bracket(age_months) = [lo |-> lo, hi |-> hi]
        /\ weight_of(age_months, lo, hi) = w
        /\ RLeq[<<0, 1>>, w] /\ RLeq[w, <<1, 1>>]
        /\ ref.median = RAdd[vlo.median, RMul[w, RSub[vhi.median, vlo.median]]]
        /\ ref.sd = RAdd[vlo.sd, RMul[w, RSub[vhi.sd, vlo.sd]]]
        /\ RBetween(ref.median, vlo.median, vhi.median)
        /\ RBetween(ref.sd, vlo.sd, vhi.sd)

(* Age 15 is equidistant from the anchors 12 and 18.                       *)
C5_Witness ==
  /\ ref # None /\ age_months = 15 /\ sex = "F"
  /\ ref.median # Literal(12, "F").median
  /\ ref.median # Literal(18, "F").median

(* C10: below age 0 the lookup returns the age-0 entry and above age 60    *)
(* the age-60 entry, within 12 months of the table or further away.        *)
C10_NoExtrapolation ==
  ref # None =>
    /\ age_months < 0 => ref = Literal(0, sex)
    /\ age_months > 60 => ref = Literal(60, sex)

C10_Witness == ref # None /\ age_months = 0 - 1 /\ ref = Literal(0, sex)

---------------------------------------------------------------------------
(* The WHO classification branch of predict_stunting.                      *)

(* The branch with "<= -2" for "< -2".                                     *)
InclusiveStunted(height_for_age_z) ==
  IF RLess[height_for_age_z, <<0 - 3, 1>>]
  THEN [who_classification |-> "Severely stunted (WHO)", who_stunting |-> "Yes"]
  ELSE IF RLeq[height_for_age_z, <<0 - 2, 1>>]
       THEN [who_classification |-> "Stunted (WHO)", who_stunting |-> "Yes"]
       ELSE [who_classification |-> "Not stunted (WHO)", who_stunting |-> "No"]

(* The branch with "<= -3" for "< -3".                                     *)
InclusiveSevere(height_for_age_z) ==
  IF RLeq[height_for_age_z, <<0 - 3, 1>>]
  THEN [who_classification |-> "Severely stunted (WHO)", who_stunting |-> "Yes"]
  ELSE IF RLess[height_for_age_z, <<0 - 2, 1>>]
       THEN [who_classification |-> "Stunted (WHO)", who_stunting |-> "Yes"]
       ELSE [who_classification |-> "Not stunted (WHO)", who_stunting |-> "No"]

who_classify(height_for_age_z) ==
  IF RLess[height_for_age_z, <<0 - 3, 1>>]
  THEN [who_classification |-> "Severely stunted (WHO)", who_stunting |-> "Yes"]
  ELSE IF RLess[height_for_age_z, <<0 - 2, 1>>]
       THEN [who_classification |-> "Stunted (WHO)", who_stunting |-> "Yes"]
       ELSE [who_classification |-> "Not stunted (WHO)", who_stunting |-> "No"]

(* Specification of the classification as a pure function of the z-score,  *)
(* drawn from the thousandths between -ZSpan/1000 and ZSpan/1000.          *)
ZSpan == 4000
ZScores == {Rat[k, 1000] : k \in (0 - ZSpan)..ZSpan}

InitClassify ==
  /\ z \in ZScores
  /\ who = None
  /\ IdleLookup
  /\ IdlePredict
  /\ IdleMain

Classify ==
  /\ who = None
  /\ who' = who_classify(z)
  /\ UNCHANGED <<z, varsLookup, varsPredict, varsMain>>

NextClassify == Classify

SpecClassify == InitClassify /\ [][NextClassify]_vars

Severely == [who_classification |-> "Severely stunted (WHO)", who_stunting |-> "Yes"]
Stunted == [who_classification |-> "Stunted (WHO)", who_stunting |-> "Yes"]
NotStunted == [who_classification |-> "Not stunted (WHO)", who_stunting |-> "No"]

(* C1: every z-score gets exactly one of three classifications: Severely   *)
(* stunted/Yes when z < -3, Stunted/Yes when -3 <= z < -2, Not stunted/No  *)
(* when z >= -2; the three cases are disjoint and cover every z.           *)
C1_ThreeIntervals ==
  who # None =>
    LET n == z[1]
        d == z[2]
        sev == n < (0 - 3) * d
        stu == (0 - 3) * d <= n /\ n < (0 - 2) * d
        nrm == n >= (0 - 2) * d
    IN  /\ who \in {Severely, Stunted, NotStunted}
        /\ who = Severely <=> sev
        /\ who = Stunted <=> stu
        /\ who = NotStunted <=> nrm
        /\ (sev /\ ~stu /\ ~nrm) \/ (~sev /\ stu /\ ~nrm) \/ (~sev /\ ~stu /\ nrm)

C1_Witness == who = Stunted /\ z = Rat[0 - 2500, 1000]

(* C2 as stated: z = -3.0 gives Severely stunted, z = -2.0 gives Stunted   *)
(* and z = -1.999 gives Not stunted.                                       *)
C2_Original ==
  who # None =>
    /\ z = Rat[0 - 3000, 1000] => who = Severely
    /\ z = Rat[0 - 2000, 1000] => who = Stunted
    /\ z = Rat[0 - 1999, 1000] => who = NotStunted

(* C2 amended: both comparisons are strict, so z = -3.0 gives Stunted,     *)
(* z = -2.0 gives Not stunted, and z = -1.999 gives Not stunted.           *)
C2_Boundaries ==
  who # None =>
    /\ z = Rat[0 - 3000, 1000] => who = Stunted
    /\ z = Rat[0 - 2000, 1000] => who = NotStunted
    /\ z = Rat[0 - 1999, 1000] => who = NotStunted

C2_Witness == who = Stunted /\ z = Rat[0 - 3000, 1000]

---------------------------------------------------------------------------
(* calculate_height_for_age_z and predict_stunting                         *)

(* A numeric cell of a record, and a cell holding text.                    *)
Num(r) == [cell |-> "number", val |-> r]
Text == [cell |-> "text"]

(* A double: finite, or one of the values a division by zero produces.     *)
Finite(r) == [fl |-> "finite", val |-> r]
Inf == [fl |-> "inf"]
NegInf == [fl |-> "-inf"]
NaN == [fl |-> "nan"]

(* Float division x / y of pandas columns: no exception on a zero divisor. *)
float_div(x, y) ==
  IF y[1] # 0 THEN Finite(RDiv[x, y])
  ELSE IF x[1] > 0 THEN Inf
  ELSE IF x[1] < 0 THEN NegInf
  ELSE NaN

(* z_score = (height - median) / sd                                        *)
z_score_of(height, r) == RDiv[RSub[height, r.median], r.sd]

(* The z-score with the difference taken the wrong way round.              *)
ReversedZ(row) ==
  z_score_of(RSub[<<0, 1>>, row.BodyLength.val],
             [median |-> RSub[<<0, 1>>,
                              get_height_for_age_reference(row.Age, row.Sex).median],
              sd |-> get_height_for_age_reference(row.Age, row.Sex).sd])

(* median, sd = get_height_for_age_reference(age, sex); the z-score of the *)
(* row's height against them.                                              *)
calculate_height_for_age_z(row) ==
  z_score_of(row.BodyLength.val, get_height_for_age_reference(row.Age, row.Sex))

(* An exception leaving a function.                                        *)
Raise(e) == [raised |-> e]
IsRaise(v) == "raised" \in DOMAIN v
IsResult(v) == "who_classification" \in DOMAIN v

(* What the opaque preprocessor.transform and model.predict yield on one   *)
(* call: a probability, or an exception.                                   *)
Prob(p) == [yields |-> "probability", p |-> p]
Fails == [yields |-> "exception"]

Loaded == [kind |-> "loaded"]

(* predict_stunting with the prediction taken from the probability.        *)
ProbabilityDecides(d, model, preprocessor, o) ==
  IF d.BodyLength = Text \/ d.BodyWeight = Text
  THEN Raise("TypeError")
  ELSE LET bmi == float_div(d.BodyWeight.val,
                            RMul[RDiv[d.BodyLength.val, <<100, 1>>],
                                 RDiv[d.BodyLength.val, <<100, 1>>]])
           height_for_age_z == calculate_height_for_age_z(d)
           w == IF RLeq[<<1, 2>>, o.p]
                THEN [who_classification |-> "Stunted (WHO)", who_stunting |-> "Yes"]
                ELSE [who_classification |-> "Not stunted (WHO)", who_stunting |-> "No"]
       IN  IF preprocessor = None \/ model = None
           THEN Raise("AttributeError")
           ELSE IF o = Fails
           THEN Raise("Exception")
           ELSE [stunting_probability |-> o.p,
                 stunting_prediction |-> w.who_stunting,
                 who_classification |-> w.who_classification,
                 height_for_age_z_score |-> height_for_age_z,
                 bmi |-> bmi]

(* d is the one-row frame; o is what the opaque preprocessor and model     *)
(* yield on this call.  A text cell makes the BMI line raise TypeError; a  *)
(* None preprocessor makes preprocessor.transform raise AttributeError.    *)
predict_stunting(d, model, preprocessor, o) ==
  IF d.BodyLength = Text \/ d.BodyWeight = Text
  THEN Raise("TypeError")
  ELSE LET bmi == float_div(d.BodyWeight.val,
                            RMul[RDiv[d.BodyLength.val, <<100, 1>>],
                                 RDiv[d.BodyLength.val, <<100, 1>>]])
           height_for_age_z == calculate_height_for_age_z(d)
           w == who_classify(height_for_age_z)
       IN  IF preprocessor = None \/ model = None
           THEN Raise("AttributeError")
           ELSE IF o = Fails
           THEN Raise("Exception")
           ELSE [stunting_probability |-> o.p,
                 stunting_prediction |-> w.who_stunting,
                 who_classification |-> w.who_classification,
                 height_for_age_z_score |-> height_for_age_z,
                 bmi |-> bmi]

(* Specification of predict_stunting: a record is drawn at Init and the    *)
(* function is applied to it repeatedly, the opaque model answering each   *)
(* call; result is the last call's outcome and prev the one before.        *)
PredictAges == {12, 15, 24}
Weights == {Num(Tenths(0)), Num(Tenths(95)), Num(Tenths(120)), Text}
Lengths == {Num(Tenths(0)), Num(Tenths(700)), Num(Tenths(750)),
            Num(Tenths(790)), Text}
Records == [Sex : Sexes, Age : PredictAges, BodyWeight : Weights,
            BodyLength : Lengths]
Outcomes == {Prob(Tenths(2)), Prob(Tenths(8)), Fails}

InitPredict ==
  /\ data \in Records
  /\ out = None
  /\ result = None
  /\ prev = None
  /\ IdleLookup
  /\ IdleClassify
  /\ IdleMain

Predict ==
  /\ \E o \in Outcomes :
       /\ out' = o
       /\ result' = predict_stunting(data, Loaded, Loaded, o)
  /\ prev' = result
  /\ UNCHANGED <<data, varsLookup, varsClassify, varsMain>>

NextPredict == Predict

SpecPredict == InitPredict /\ [][NextPredict]_vars

(* C3: two calls on the same record with different model outputs return    *)
(* the same who_classification and stunting_prediction (and z-score and    *)
(* BMI); the stunting_probability is the model's output of each call.      *)
C3_ProbabilityIndependent ==
  /\ (IsResult(prev) /\ IsResult(result)) =>
       /\ prev.who_classification = result.who_classification
       /\ prev.stunting_prediction = result.stunting_prediction
       /\ prev.height_for_age_z_score = result.height_for_age_z_score
       /\ prev.bmi = result.bmi
  /\ IsResult(result) =>
       /\ result.stunting_probability = out.p
       /\ result.who_classification =
            who_classify(result.height_for_age_z_score).who_classification
       /\ result.stunting_prediction =
            who_classify(result.height_for_age_z_score).who_stunting

C3_Witness ==
  /\ IsResult(prev) /\ IsResult(result)
  /\ prev.stunting_probability = Tenths(2)
  /\ result.stunting_probability = Tenths(8)
  /\ result.who_classification = "Not stunted (WHO)"

IsExample(d) ==
  /\ d # None
  /\ d.Sex = "F" /\ d.Age = 24 /\ d.BodyLength = Num(Tenths(790))

(* C6 as stated: for a girl of 24 months the reference is (86.4, 2.5), so  *)
(* 79.0 cm gives z = -2.96, Stunted, stunting_prediction Yes.              *)
C6_Original ==
  (IsExample(data) /\ IsResult(result)) =>
    /\ get_height_for_age_reference(24, "F") =
         [median |-> Tenths(864), sd |-> Tenths(25)]
    /\ result.height_for_age_z_score = Rat[0 - 296, 100]
    /\ result.who_classification = "Stunted (WHO)"
    /\ result.stunting_prediction = "Yes"

(* C6 amended: the reference is (86.4, 3.4), so 79.0 cm gives              *)
(* z = (79.0 - 86.4)/3.4 = -37/17 (about -2.18), Stunted, Yes.             *)
C6_Example ==
  (IsExample(data) /\ IsResult(result)) =>
    /\ get_height_for_age_reference(24, "F") =
         [median |-> Tenths(864), sd |-> Tenths(34)]
    /\ result.height_for_age_z_score = Rat[0 - 37, 17]
    /\ result.who_classification = "Stunted (WHO)"
    /\ result.stunting_prediction = "Yes"

C6_Witness == IsExample(data) /\ IsResult(result)

(* C8: a record with body length 0 yields no prediction result, and no     *)
(* result carries a BMI or z-score that is NaN or infinite.                *)
C8_Claim ==
  /\ (data # None /\ data.BodyLength = Num(Tenths(0))) => ~IsResult(result)
  /\ IsResult(result) => result.bmi.fl = "finite"

---------------------------------------------------------------------------
(* load_model_and_preprocessor and main                                    *)

(* The state of the two artifact files when the loader runs.               *)
Files == {"present", "missing", "unreadable"}

(* The loader's body: FileNotFoundError is caught and reported; any other  *)
(* exception of the two load calls leaves the function.                    *)
load_model_and_preprocessor(files) ==
  CASE files = "present" ->
         [model |-> Loaded, preprocessor |-> Loaded, model_loaded |-> TRUE]
    [] files = "missing" ->
         [model |-> None, preprocessor |-> None, model_loaded |-> FALSE]
    [] files = "unreadable" -> Raise("Exception")

(* The two st.error messages of the loader.                                *)
LoadErrors == {"Model atau preprocessor tidak ditemukan",
               "Pastikan Anda sudah menjalankan notebook"}
ReadError == "Error membaca file"
SchemaError == "File CSV harus memiliki kolom"

(* main without the st.stop() of a failed load.                            *)
NeverStops(model_loaded) == FALSE

(* if not model_loaded: st.stop()                                          *)
must_stop(model_loaded) == ~model_loaded

(* The values the form's widgets can submit.                               *)
FormInputs ==
  [Sex : Sexes, Age : {12, 24}, BodyWeight : {Num(Tenths(95))},
   BodyLength : {Num(Tenths(750)), Num(Tenths(790))}]

(* The rows an uploaded CSV can hold.                                      *)
BatchRows ==
  { [Sex |-> "M", Age |-> 12, BodyWeight |-> Num(Tenths(95)),
     BodyLength |-> Num(Tenths(750))],
    [Sex |-> "F", Age |-> 24, BodyWeight |-> Num(Tenths(85)),
     BodyLength |-> Num(Tenths(790))],
    [Sex |-> "M", Age |-> 12, BodyWeight |-> Num(Tenths(95)),
     BodyLength |-> Num(Tenths(0))],
    [Sex |-> "F", Age |-> 24, BodyWeight |-> Num(Tenths(85)),
     BodyLength |-> Text] }

MaxBatch == 2
Batches == UNION {[1..n -> BatchRows] : n \in 0..MaxBatch}

Init ==
  /\ IdleMain
  /\ IdleLookup
  /\ IdleClassify
  /\ IdlePredict

(* model, preprocessor, model_loaded = load_model_and_preprocessor(),      *)
(* through st.cache_resource: a returned value is cached and replayed with *)
(* its st.error messages; an exception is not cached and ends the run.     *)
LoadModel ==
  /\ pc = "start"
  /\ IF cache # None
     THEN /\ loaded' = cache
          /\ load_status' = IF cache.model_loaded THEN "ok" ELSE "missing"
          /\ errors' = IF cache.model_loaded THEN errors ELSE errors \cup LoadErrors
          /\ pc' = "loaded"
          /\ UNCHANGED cache
     ELSE \E f \in Files :
            \E r \in {load_model_and_preprocessor(f)} :
                IF IsRaise(r)
                THEN /\ pc' = "crashed"
                     /\ load_status' = "raised"
                     /\ UNCHANGED <<cache, loaded, errors>>
                ELSE /\ loaded' = r
                     /\ cache' = r
                     /\ load_status' = IF r.model_loaded THEN "ok" ELSE "missing"
                     /\ errors' = IF r.model_loaded THEN errors
                                  ELSE errors \cup LoadErrors
                     /\ pc' = "loaded"
  /\ UNCHANGED <<calls, single, batch_data, i, results, batch_out>>
  /\ UNCHANGED <<varsLookup, varsClassify, varsPredict>>

CheckLoaded ==
  /\ pc = "loaded"
  /\ pc' = IF must_stop(loaded.model_loaded) THEN "stopped" ELSE "form"
  /\ UNCHANGED <<cache, loaded, load_status, errors, calls, single,
                 batch_data, i, results, batch_out>>
  /\ UNCHANGED <<varsLookup, varsClassify, varsPredict>>

(* The form was not submitted in this run.                                 *)
FormIdle ==
  /\ pc = "form"
  /\ pc' = "batch"
  /\ UNCHANGED <<cache, loaded, load_status, errors, calls, single,
                 batch_data, i, results, batch_out>>
  /\ UNCHANGED <<varsLookup, varsClassify, varsPredict>>

(* if predict_button: result = predict_stunting(input_data, ...); an       *)
(* exception is not caught here and ends the run.                          *)
FormPredict ==
  /\ pc = "form"
  /\ \E input \in FormInputs, o \in Outcomes :
       \E r \in {predict_stunting(input, loaded.model, loaded.preprocessor, o)} :
         IF IsRaise(r)
         THEN pc' = "crashed" /\ UNCHANGED single
         ELSE pc' = "batch" /\ single' = r
  /\ calls' = calls + 1
  /\ UNCHANGED <<cache, loaded, load_status, errors,
                 batch_data, i, results, batch_out>>
  /\ UNCHANGED <<varsLookup, varsClassify, varsPredict>>

(* No file is uploaded, or the batch button is not pressed.                *)
NoBatch ==
  /\ pc = "batch"
  /\ pc' = "done"
  /\ UNCHANGED <<cache, loaded, load_status, errors, calls, single,
                 batch_data, i, results, batch_out>>
  /\ UNCHANGED <<varsLookup, varsClassify, varsPredict>>

(* pd.read_csv raises: except Exception reports it.                        *)
BatchReadError ==
  /\ pc = "batch"
  /\ errors' = errors \cup {ReadError}
  /\ pc' = "done"
  /\ UNCHANGED <<cache, loaded, load_status, calls, single,
                 batch_data, i, results, batch_out>>
  /\ UNCHANGED <<varsLookup, varsClassify, varsPredict>>

(* A required column is missing: the else branch reports it.               *)
BatchSchemaError ==
  /\ pc = "batch"
  /\ errors' = errors \cup {SchemaError}
  /\ pc' = "done"
  /\ UNCHANGED <<cache, loaded, load_status, calls, single,
                 batch_data, i, results, batch_out>>
  /\ UNCHANGED <<varsLookup, varsClassify, varsPredict>>

(* The batch button is pressed on a well-formed file: results = []         *)
BatchStart ==
  /\ pc = "batch"
  /\ \E b \in Batches : batch_data' = b
  /\ results' = <<>>
  /\ i' = 1
  /\ pc' = "loop"
  /\ UNCHANGED <<cache, loaded, load_status, errors, calls, single, batch_out>>
  /\ UNCHANGED <<varsLookup, varsClassify, varsPredict>>

(* One iteration of the for loop.  An exception of predict_stunting leaves *)
(* the loop and is caught by the except Exception around the whole batch   *)
(* section, which reports it; results is dropped.                          *)
BatchRow ==
  /\ pc = "loop"
  /\ i <= Len(batch_data)
  /\ \E o \in Outcomes :
       \E r \in {predict_stunting(batch_data[i], loaded.model,
                                  loaded.preprocessor, o)} :
         IF IsRaise(r)
         THEN /\ errors' = errors \cup {ReadError}
              /\ pc' = "done"
              /\ UNCHANGED <<i, results>>
         ELSE /\ results' = Append(results, r)
              /\ i' = i + 1
              /\ UNCHANGED <<errors, pc>>
  /\ calls' = calls + 1
  /\ UNCHANGED <<cache, loaded, load_status, single, batch_data, batch_out>>
  /\ UNCHANGED <<varsLookup, varsClassify, varsPredict>>

(* After the loop: the table of all rows with their results is shown; the  *)
(* summary then divides by len(results), which raises on an empty batch    *)
(* and is caught by the same except Exception.                             *)
BatchFinish ==
  /\ pc = "loop"
  /\ i > Len(batch_data)
  /\ batch_out' = [table |-> results]
  /\ errors' = IF Len(results) = 0 THEN errors \cup {ReadError} ELSE errors
  /\ pc' = "done"
  /\ UNCHANGED <<cache, loaded, load_status, calls, single,
                 batch_data, i, results>>
  /\ UNCHANGED <<varsLookup, varsClassify, varsPredict>>

(* Any interaction reruns the script from the top; only the cache stays.   *)
Rerun ==
  /\ pc \in {"stopped", "crashed", "done"}
  /\ pc' = "start"
  /\ loaded' = None
  /\ load_status' = "pending"
  /\ errors' = {}
  /\ calls' = 0
  /\ single' = None
  /\ batch_data' = <<>>
  /\ i' = 0
  /\ results' = <<>>
  /\ batch_out' = None
  /\ UNCHANGED cache
  /\ UNCHANGED <<varsLookup, varsClassify, varsPredict>>

Next ==
  \/ LoadModel
  \/ CheckLoaded
  \/ FormIdle
  \/ FormPredict
  \/ NoBatch
  \/ BatchReadError
  \/ BatchSchemaError
  \/ BatchStart
  \/ BatchRow
  \/ BatchFinish
  \/ Rerun

Spec == Init /\ [][Next]_vars

(* C7: a failure while scoring one row does not abort the batch: every     *)
(* later row is still processed and the output has exactly one entry per   *)
(* input row.                                                              *)
C7_Claim ==
  (pc = "done" /\ i > 0) =>
    /\ i = Len(batch_data) + 1
    /\ batch_out # None
    /\ Len(batch_out.table) = Len(batch_data)

(* C9: when the load fails, the failure is reported and the run makes no   *)
(* call of predict_stunting, for the form or for a batch row.              *)
C9_LoadFailureFatal ==
  load_status \in {"missing", "raised"} =>
    /\ calls = 0
    /\ pc \in {"loaded", "stopped", "crashed"}
    /\ single = None /\ batch_out = None /\ i = 0
    /\ load_status = "missing" => LoadErrors \subseteq errors
    /\ load_status = "raised" => pc = "crashed"

C9_Witness == load_status = "missing" /\ pc = "stopped" /\ cache # None

====
